---- MODULE Spec2Model ----
(***************************************************************************)
(* Shove Trick Trainer API: the practice-logging handler (log_practice),   *)
(* its progression rules (XP, streak, badges, milestone), the achievement  *)
(* side effect and the leaderboard, over a document store with two         *)
(* collections.  Requests are processes that interleave on the store and   *)
(* on the wall clock.                                                      *)
(***************************************************************************)
EXTENDS Integers, Sequences, FiniteSets, TLC

VARIABLES
    now,              \* the wall clock: the current UTC day
    practicesession,  \* collection "practicesession", in insertion order
    achievement,      \* collection "achievement", in insertion order
    pc,               \* per request: where its handler stands
    session,          \* per request: the submitted payload
    docs,             \* per request: local `docs` of log_practice
    today,            \* per request: local `today` of log_practice
    streak,           \* per request: local `streak` of log_practice
    awarded,          \* per request: badges already handled by the for loop
    feedback,         \* per request: the SessionFeedback returned
    board             \* the last leaderboard call: its limit and its response

vars == <<now, practicesession, achievement, pc, session, docs, today,
          streak, awarded, feedback, board>>

(***************************************************************************)
(* Bounds of the model                                                     *)
(***************************************************************************)
NReq == 2          \* request slots that may be in flight together
MaxTicks == 1      \* midnights the clock may pass in the concurrent runs
MaxDay == 7        \* last day of the history window 0..MaxDay
MaxBoard == 3      \* sessions logged before a leaderboard is asked for
MaxLimit == 3      \* largest leaderboard limit asked for

Req == 1..NReq
Users == {"u1", "u2"}

(***************************************************************************)
(* Program constants                                                       *)
(***************************************************************************)
DurationMin == 1
DurationMax == 240
ScoreMin == 0
ScoreMax == 100
AttemptsMin == 1
AttemptsMax == 500
NotesMax == 500
XpCap == 50
CleanPopScore == 60
GrinderAttempts == 50
MilestoneEvery == 7

\* Python's None, and Optional values as sequences of length 0 or 1
None == <<>>
Some(v) == <<v>>

Min2(a, b) == IF a <= b THEN a ELSE b
Max2(a, b) == IF a >= b THEN a ELSE b

(***************************************************************************)
(* Text: str(), split("T"), fromisoformat(), lower(), replace()            *)
(***************************************************************************)
\* a timestamp's text is a sequence of tokens: date, "T", time of day
DateTok(d) == [k |-> "date", v |-> d]
TTok == [k |-> "T", v |-> 0]
TimeTok == [k |-> "time", v |-> 0]
NoneTok == [k |-> "None", v |-> 0]

\* str(x) of a stored timestamp or of None
Str(x) == IF x = None THEN <<NoneTok>> ELSE <<DateTok(x[1]), TTok, TimeTok>>

\* text.split("T")[0]: the text before the first "T"
RECURSIVE SplitT(_)
SplitT(text) ==
    IF text = <<>> \/ Head(text) = TTok THEN <<>>
    ELSE <<Head(text)>> \o SplitT(Tail(text))

\* datetime.fromisoformat(text) accepts date, "T", time
IsIso(text) == Len(text) = 3 /\ text[1].k = "date" /\ text[2] = TTok /\ text[3] = TimeTok
IsoDate(text) == text[1].v

Upper == <<"A","B","C","D","E","F","G","H","I","J","K","L","M",
           "N","O","P","Q","R","S","T","U","V","W","X","Y","Z">>
Lower == <<"a","b","c","d","e","f","g","h","i","j","k","l","m",
           "n","o","p","q","r","s","t","u","v","w","x","y","z">>

LowerChar(c) ==
    IF \E i \in 1..Len(Upper) : Upper[i] = c
    THEN Lower[CHOOSE i \in 1..Len(Upper) : Upper[i] = c]
    ELSE c

\* b.lower().replace(" ", "-")
SlugWrong(b) == [i \in 1..Len(b) |-> LowerChar(b[i])]
Slug(b) == [i \in 1..Len(b) |-> IF LowerChar(b[i]) = " " THEN "-" ELSE LowerChar(b[i])]

CleanPop == <<"C","l","e","a","n"," ","P","o","p">>
Grinder == <<"G","r","i","n","d","e","r">>

(***************************************************************************)
(* Domain schemas                                                          *)
(***************************************************************************)
\* PracticeSession's field constraints; notes is None or Some(length)
ValidNoNotes(p) ==
    /\ p.duration_min >= DurationMin /\ p.duration_min <= DurationMax
    /\ p.technique_score >= ScoreMin /\ p.technique_score <= ScoreMax
    /\ p.attempts >= AttemptsMin /\ p.attempts <= AttemptsMax
Valid(p) ==
    /\ p.duration_min >= DurationMin /\ p.duration_min <= DurationMax
    /\ p.technique_score >= ScoreMin /\ p.technique_score <= ScoreMax
    /\ p.attempts >= AttemptsMin /\ p.attempts <= AttemptsMax
    /\ (p.notes = None \/ p.notes[1] <= NotesMax)

Payload(u, d, s, a, n, p) ==
    [user_id |-> u, duration_min |-> d, technique_score |-> s, attempts |-> a,
     notes |-> n, performed_at |-> p]

Achievement(u, b, day) ==
    [user_id |-> u, key |-> Slug(b), title |-> b,
     description |-> [text |-> "Unlocked by session on ", date |-> day],
     icon |-> "star", unlocked_at |-> None]

(***************************************************************************)
(* Document store adapter                                                  *)
(***************************************************************************)
\* create_document: the model's fields plus the creation timestamps
create_document(coll, data, t) ==
    Append(coll, data @@ [created_at |-> Some(t), updated_at |-> Some(t)])

\* get_documents: filter is None (all) or Some(user_id)
get_documents(coll, filter) ==
    IF filter = None THEN coll
    ELSE SelectSeq(coll, LAMBDA d : d.user_id = filter[1])

(***************************************************************************)
(* Progression rules                                                       *)
(***************************************************************************)
XPUncapped(s) ==
    (s.duration_min \div 5) + (s.attempts \div 10) + (s.technique_score \div 10)
XPSumFirst(s) ==
    Min2(XpCap, (2 * s.duration_min + s.attempts + s.technique_score) \div 10)
XP(s) ==
    Min2(XpCap, (s.duration_min \div 5) + (s.attempts \div 10) + (s.technique_score \div 10))

\* str(d.get("performed_at") or d.get("created_at")).split("T")[0]
DateTextCreated(d) == SplitT(Str(d.created_at))
DateText(d) ==
    SplitT(Str(IF d.performed_at # None THEN d.performed_at ELSE d.created_at))

Dates(ds) == {DateText(ds[i]) : i \in 1..Len(ds)}

Parsable(ds) == \A dt \in Dates(ds) : dt # <<>> => IsIso(dt \o <<TTok, TimeTok>>)

DateSet(ds) == {IsoDate(dt \o <<TTok, TimeTok>>) : dt \in {x \in Dates(ds) : x # <<>>}}

\* while day in date_set: count += 1; day = day - 1
RECURSIVE Walk(_, _, _)
Walk(day, dateSet, count) ==
    IF day \in dateSet THEN Walk(day - 1, dateSet, count + 1) ELSE count

StreakLatest(ds, t) ==
    IF Dates(ds) = {} THEN 0
    ELSE IF DateSet(ds) = {} THEN 0
    ELSE LET last == CHOOSE d \in DateSet(ds) : \A e \in DateSet(ds) : e <= d
         IN  Walk(last, DateSet(ds), 0)
StreakOne(ds, t) ==
    IF Dates(ds) = {} THEN 1 ELSE Walk(t, DateSet(ds), 0)
Streak(ds, t) ==
    LET initial == IF Dates(ds) # {} THEN 1 ELSE 0
    IN  IF Dates(ds) # {} THEN Walk(t, DateSet(ds), 0) ELSE initial

BadgesElif(s) ==
    IF s.technique_score >= CleanPopScore THEN <<CleanPop>>
    ELSE IF s.attempts >= GrinderAttempts THEN <<Grinder>> ELSE <<>>
Badges(s) ==
    (IF s.technique_score >= CleanPopScore THEN <<CleanPop>> ELSE <<>>)
    \o (IF s.attempts >= GrinderAttempts THEN <<Grinder>> ELSE <<>>)

MilestoneAny(k) ==
    IF k % MilestoneEvery = 0 THEN Some([n |-> k, suffix |-> "-Day Streak!"]) ELSE None
Milestone(k) ==
    IF k # 0 /\ k % MilestoneEvery = 0
    THEN Some([n |-> k, suffix |-> "-Day Streak!"])
    ELSE None

NoFeedback == [xp_earned |-> 0, streak |-> 0, badges_unlocked |-> <<>>, milestone |-> None]
NoSession == Payload("u1", 1, 0, 1, None, None)

(***************************************************************************)
(* POST /api/practice                                                      *)
(***************************************************************************)
\* the request arrives; the framework validates the body against the schema
Submit(r, p) ==
    /\ pc[r] = "idle"
    /\ session' = [session EXCEPT ![r] = p]
    /\ pc' = [pc EXCEPT ![r] = IF Valid(p) THEN "insert" ELSE "rejected"]
    /\ UNCHANGED <<now, practicesession, achievement, docs, today, streak,
                   awarded, feedback, board>>

\* create_document("practicesession", session)
LogInsertSkip(r) ==
    /\ pc[r] = "insert"
    /\ pc' = [pc EXCEPT ![r] = "query"]
    /\ UNCHANGED <<now, practicesession, achievement, session, docs, today,
                   streak, awarded, feedback, board>>
LogInsert(r) ==
    /\ pc[r] = "insert"
    /\ practicesession' = create_document(practicesession, session[r], now)
    /\ pc' = [pc EXCEPT ![r] = "query"]
    /\ UNCHANGED <<now, achievement, session, docs, today, streak, awarded,
                   feedback, board>>

\* docs = get_documents("practicesession", {"user_id": session.user_id})
LogQuery(r) ==
    /\ pc[r] = "query"
    /\ docs' = [docs EXCEPT ![r] = get_documents(practicesession, Some(session[r].user_id))]
    /\ pc' = [pc EXCEPT ![r] = "streak"]
    /\ UNCHANGED <<now, practicesession, achievement, session, today, streak,
                   awarded, feedback, board>>

\* dates, today = now(utc).date(), the backward walk
LogStreak(r) ==
    /\ pc[r] = "streak"
    /\ today' = [today EXCEPT ![r] = now]
    /\ IF Parsable(docs[r])
       THEN /\ streak' = [streak EXCEPT ![r] = Streak(docs[r], now)]
            /\ pc' = [pc EXCEPT ![r] = "award"]
       ELSE /\ streak' = streak
            /\ pc' = [pc EXCEPT ![r] = "failed"]
    /\ UNCHANGED <<now, practicesession, achievement, session, docs, awarded,
                   feedback, board>>

\* one turn of `for b in badges: create_document("achievement", ...)`
LogAwardOnce(r) ==
    /\ pc[r] = "award"
    /\ awarded[r] < Len(Badges(session[r]))
    /\ achievement' =
        IF \E i \in 1..Len(achievement) :
                /\ achievement[i].user_id = session[r].user_id
                /\ achievement[i].title = Badges(session[r])[awarded[r] + 1]
        THEN achievement
        ELSE create_document(achievement,
                Achievement(session[r].user_id, Badges(session[r])[awarded[r] + 1], now), now)
    /\ awarded' = [awarded EXCEPT ![r] = awarded[r] + 1]
    /\ UNCHANGED <<now, practicesession, pc, session, docs, today, streak,
                   feedback, board>>
LogAward(r) ==
    /\ pc[r] = "award"
    /\ awarded[r] < Len(Badges(session[r]))
    /\ achievement' = create_document(achievement,
            Achievement(session[r].user_id, Badges(session[r])[awarded[r] + 1], now), now)
    /\ awarded' = [awarded EXCEPT ![r] = awarded[r] + 1]
    /\ UNCHANGED <<now, practicesession, pc, session, docs, today, streak,
                   feedback, board>>

\* return SessionFeedback(...)
LogReturn(r) ==
    /\ pc[r] = "award"
    /\ awarded[r] = Len(Badges(session[r]))
    /\ feedback' = [feedback EXCEPT ![r] =
            [xp_earned |-> XP(session[r]), streak |-> streak[r],
             badges_unlocked |-> Badges(session[r]), milestone |-> Milestone(streak[r])]]
    /\ pc' = [pc EXCEPT ![r] = "done"]
    /\ UNCHANGED <<now, practicesession, achievement, session, docs, today,
                   streak, awarded, board>>

\* midnight UTC passes
Tick(last) ==
    /\ now < last
    /\ now' = now + 1
    /\ UNCHANGED <<practicesession, achievement, pc, session, docs, today,
                   streak, awarded, feedback, board>>

(***************************************************************************)
(* Concurrent practice logs                                                *)
(***************************************************************************)
FirstDay == 1

AllIdle ==
    /\ pc = [r \in Req |-> "idle"]
    /\ session = [r \in Req |-> NoSession]
    /\ docs = [r \in Req |-> <<>>]
    /\ today = [r \in Req |-> 0]
    /\ streak = [r \in Req |-> 0]
    /\ awarded = [r \in Req |-> 0]
    /\ feedback = [r \in Req |-> NoFeedback]
    /\ board = [limit |-> 0, entries |-> <<>>]

EmptyStore == practicesession = <<>> /\ achievement = <<>> /\ AllIdle

\* logs without a badge: of today by either user, and of yesterday's or of
\* today's session, given as performed_at, by u1
RacePayloads ==
    {Payload(u, 25, 59, 49, None, None) : u \in Users}
    \cup {Payload("u1", 25, 59, 49, None, Some(d)) : d \in {FirstDay - 1, FirstDay}}

Init == now = FirstDay /\ EmptyStore

SubmitRace(r) == pc[r] = "idle" /\ \E p \in RacePayloads : Submit(r, p)

Next ==
    \/ \E r \in Req : SubmitRace(r)
    \/ \E r \in Req : LogInsert(r)
    \/ \E r \in Req : LogQuery(r)
    \/ \E r \in Req : LogStreak(r)
    \/ \E r \in Req : LogReturn(r)
    \/ Tick(FirstDay + MaxTicks)

Spec == Init /\ [][Next]_vars

\* logs that unlock both badges (either user), Clean Pop alone, Grinder alone
\* and none
AwardPayloads ==
    {Payload(u, 25, 70, 60, None, None) : u \in Users}
    \cup {Payload("u1", 25, 70, 49, None, None), Payload("u2", 25, 59, 60, None, None),
          Payload("u1", 25, 59, 49, None, None)}

SubmitAward(r) == pc[r] = "idle" /\ \E p \in AwardPayloads : Submit(r, p)

NextAward ==
    \/ \E r \in Req : SubmitAward(r)
    \/ \E r \in Req : LogInsert(r)
    \/ \E r \in Req : LogQuery(r)
    \/ \E r \in Req : LogStreak(r)
    \/ \E r \in Req : LogAward(r)
    \/ \E r \in Req : LogReturn(r)

SpecAward == Init /\ [][NextAward]_vars

Range(seq) == {seq[i] : i \in 1..Len(seq)}
Count(seq, P(_)) == Cardinality({i \in 1..Len(seq) : P(seq[i])})
BadgeNames == {CleanPop, Grinder}

\* the calendar day of a stored session: performed_at when given, else created_at
DocDay(d) == IF d.performed_at = None THEN d.created_at[1] ELSE d.performed_at[1]

\* the stored document carries the fields of the payload
Carries(d, p) ==
    /\ d.user_id = p.user_id /\ d.duration_min = p.duration_min
    /\ d.technique_score = p.technique_score /\ d.attempts = p.attempts
    /\ d.notes = p.notes /\ d.performed_at = p.performed_at

\* C8: every achievement document is one unlock of one practice log: it has the
\* user of that log, the badge name as title and the lower-cased, dash-joined
\* name as key; per user and badge there are exactly as many documents as badge
\* unlocks returned (or already written by a log still in its loop), repeats
\* included.
C8_OneAchievementPerUnlock ==
    /\ \A i \in 1..Len(achievement) :
        /\ achievement[i].title \in BadgeNames
        /\ achievement[i].title = CleanPop =>
                achievement[i].key = <<"c","l","e","a","n","-","p","o","p">>
        /\ achievement[i].title = Grinder =>
                achievement[i].key = <<"g","r","i","n","d","e","r">>
    /\ \A u \in Users, b \in BadgeNames :
        Count(achievement, LAMBDA a : a.user_id = u /\ a.title = b)
          = Cardinality({r \in Req :
                /\ session[r].user_id = u
                /\ \/ pc[r] = "done" /\ b \in Range(feedback[r].badges_unlocked)
                   \/ /\ pc[r] = "award"
                      /\ \/ /\ b = CleanPop /\ session[r].technique_score >= 60
                            /\ awarded[r] >= 1
                         \/ /\ b = Grinder /\ session[r].attempts >= 50
                            /\ awarded[r] >= (IF session[r].technique_score >= 60 THEN 2 ELSE 1)})

\* two finished logs of one user, each unlocking Clean Pop: two documents
C8_Witness ==
    /\ \A r \in Req : pc[r] = "done"
    /\ \E u \in Users :
        /\ \A r \in Req : session[r].user_id = u /\ CleanPop \in Range(feedback[r].badges_unlocked)
        /\ Count(achievement, LAMBDA a : a.user_id = u /\ a.title = CleanPop) = NReq

\* C10: once a request has read its history, the history holds a document
\* carrying that request's own session, so it is never empty; and if such a
\* document is dated the day the request takes as today, its streak is >= 1.
C10_OwnSessionInHistory ==
    \A r \in Req :
        /\ pc[r] \in {"streak", "award", "done"} =>
            /\ docs[r] # <<>>
            /\ \E i \in 1..Len(docs[r]) : Carries(docs[r][i], session[r])
        /\ pc[r] \in {"award", "done"} =>
            ((\E i \in 1..Len(docs[r]) :
                Carries(docs[r][i], session[r]) /\ DocDay(docs[r][i]) = today[r])
             => streak[r] >= 1)
        /\ pc[r] = "done" =>
            ((\E i \in 1..Len(docs[r]) :
                Carries(docs[r][i], session[r]) /\ DocDay(docs[r][i]) = today[r])
             => feedback[r].streak >= 1)

\* two logs of one user raced: both inserted before either read, both done
C10_Witness ==
    \E r \in Req, q \in Req :
        /\ r # q /\ pc[r] = "done" /\ pc[q] = "done"
        /\ session[r].user_id = session[q].user_id
        /\ Len(docs[r]) = 2 /\ Len(docs[q]) = 2
        /\ feedback[r].streak >= 1 /\ feedback[q].streak >= 1

(***************************************************************************)
(* One practice log over the input ranges                                  *)
(***************************************************************************)
DurS == {1, 4, 5, 25, 239, 240}
AttS == {1, 9, 10, 60, 499, 500}
ScoreS == {0, 9, 10, 70, 99, 100}

\* each field over its whole range and one step beyond it, the other two over
\* samples; notes at and beyond its length limit
InputPayloads ==
    {Payload("u1", d, s, a, None, None) :
        d \in (DurationMin - 1)..(DurationMax + 1), s \in ScoreS, a \in AttS}
    \cup {Payload("u1", d, s, a, None, None) :
        d \in DurS, s \in (ScoreMin - 1)..(ScoreMax + 1), a \in AttS}
    \cup {Payload("u1", d, s, a, None, None) :
        d \in DurS, s \in ScoreS, a \in (AttemptsMin - 1)..(AttemptsMax + 1)}
    \cup {Payload("u1", 25, 70, 60, n, None) :
        n \in {Some(0), Some(NotesMax), Some(NotesMax + 1)}}

SubmitInput == pc[1] = "idle" /\ \E p \in InputPayloads : Submit(1, p)

InitInput == now = FirstDay /\ EmptyStore

NextInput ==
    \/ SubmitInput
    \/ LogInsert(1)
    \/ LogQuery(1)
    \/ LogStreak(1)
    \/ LogAward(1)
    \/ LogReturn(1)

SpecInput == InitInput /\ [][NextInput]_vars

\* C3: the XP returned is the sum of the three floors, capped at 50; the log of
\* 25 minutes, 60 attempts and score 70 earns 18.
C3_XpFormula ==
    pc[1] = "done" =>
        /\ \E qd \in 0..48 :
            /\ 5 * qd <= session[1].duration_min /\ session[1].duration_min < 5 * qd + 5
            /\ \E qa \in 0..50 :
                /\ 10 * qa <= session[1].attempts /\ session[1].attempts < 10 * qa + 10
                /\ \E qs \in 0..10 :
                    /\ 10 * qs <= session[1].technique_score
                    /\ session[1].technique_score < 10 * qs + 10
                    /\ feedback[1].xp_earned =
                            IF qd + qa + qs > 50 THEN 50 ELSE qd + qa + qs
        /\ (session[1].duration_min = 25 /\ session[1].attempts = 60
                /\ session[1].technique_score = 70) => feedback[1].xp_earned = 18

\* a log whose separately floored terms sum to less than the floor of the sum
C3_Witness ==
    /\ pc[1] = "done"
    /\ session[1].duration_min = 4 /\ session[1].attempts = 9
    /\ session[1].technique_score = 9
    /\ feedback[1].xp_earned = 0

\* C4: the XP returned lies in 0..50, and raising any one of duration_min,
\* attempts, technique_score by one within its range never lowers the XP.
C4_XpRangeMonotone ==
    pc[1] = "done" =>
        /\ feedback[1].xp_earned >= 0 /\ feedback[1].xp_earned <= 50
        /\ session[1].duration_min < 240 =>
            XP([session[1] EXCEPT !.duration_min = @ + 1]) >= feedback[1].xp_earned
        /\ session[1].attempts < 500 =>
            XP([session[1] EXCEPT !.attempts = @ + 1]) >= feedback[1].xp_earned
        /\ session[1].technique_score < 100 =>
            XP([session[1] EXCEPT !.technique_score = @ + 1]) >= feedback[1].xp_earned

\* the cap is met: the three floors sum past 50
C4_Witness ==
    /\ pc[1] = "done"
    /\ session[1].duration_min = 240 /\ session[1].attempts = 500
    /\ session[1].technique_score = 100
    /\ feedback[1].xp_earned = 50

\* C9: a payload with a field outside its declared range is rejected, and the
\* store holds neither a practice session nor an achievement for it.
C9_InvalidRejected ==
    (/\ pc[1] # "idle"
     /\ \/ session[1].duration_min < 1 \/ session[1].duration_min > 240
        \/ session[1].technique_score < 0 \/ session[1].technique_score > 100
        \/ session[1].attempts < 1 \/ session[1].attempts > 500
        \/ (session[1].notes # None /\ session[1].notes[1] > 500))
    => (pc[1] = "rejected" /\ practicesession = <<>> /\ achievement = <<>>)

\* notes one character too long, all else valid: rejected
C9_Witness ==
    /\ pc[1] = "rejected"
    /\ session[1].notes = Some(501)
    /\ practicesession = <<>> /\ achievement = <<>>

(***************************************************************************)
(* One practice log on top of a history                                    *)
(***************************************************************************)
\* a stored session of user u for day d: logged on day d without performed_at
\* ("created"), or logged on day `logged` with performed_at = d ("performed")
HistDoc(u, d, mode, logged) ==
    IF mode = "created" \/ (mode = "mixed" /\ d % 2 = 0)
    THEN Payload(u, 1, 0, 1, None, None) @@ [created_at |-> Some(d), updated_at |-> Some(d)]
    ELSE Payload(u, 1, 0, 1, None, Some(d))
            @@ [created_at |-> Some(logged), updated_at |-> Some(logged)]

\* the collection after u2 logged every day d..last and u1 on the days of H
RECURSIVE HistSeq(_, _, _, _)
HistSeq(H, d, last, mode) ==
    IF d > last THEN <<>>
    ELSE <<HistDoc("u2", d, "created", d)>>
         \o (IF d \in H THEN <<HistDoc("u1", d, mode, last)>> ELSE <<>>)
         \o HistSeq(H, d + 1, last, mode)

HistoryPayloads ==
    {Payload("u1", 25, s, a, None, p) :
        s \in {59, 60}, a \in {49, 50}, p \in {None, Some(0), Some(MaxDay)}}

InitHistory ==
    /\ \E n \in 0..MaxDay :
        \E H \in SUBSET (0..n) :
            /\ now = n
            /\ practicesession = HistSeq(H, 0, n, "mixed")
    /\ achievement = <<>>
    /\ AllIdle

SubmitHistory == pc[1] = "idle" /\ \E p \in HistoryPayloads : Submit(1, p)

NextHistory ==
    \/ SubmitHistory
    \/ LogInsert(1)
    \/ LogQuery(1)
    \/ LogStreak(1)
    \/ LogAward(1)
    \/ LogReturn(1)
    \/ Tick(MaxDay + 1)

SpecHistory == InitHistory /\ [][NextHistory]_vars

\* the days on which the store holds a session of user u
StoredDays(u) ==
    {DocDay(practicesession[i]) :
        i \in {j \in 1..Len(practicesession) : practicesession[j].user_id = u}}

C5_BadgesIndependent ==
    pc[1] = "done" =>
        /\ (CleanPop \in Range(feedback[1].badges_unlocked)) <=> (session[1].technique_score >= 60)
        /\ (Grinder \in Range(feedback[1].badges_unlocked)) <=> (session[1].attempts >= 50)
        /\ Range(feedback[1].badges_unlocked) \subseteq BadgeNames
        /\ Len(feedback[1].badges_unlocked) = Cardinality(Range(feedback[1].badges_unlocked))

\* both badges at their thresholds, on a log whose streak is 0
C5_Witness ==
    /\ pc[1] = "done"
    /\ session[1].technique_score = 60 /\ session[1].attempts = 50
    /\ feedback[1].badges_unlocked = <<CleanPop, Grinder>>
    /\ feedback[1].streak = 0

\* C6: the milestone is present exactly when the streak of the same response
\* is a positive multiple of 7, and then it is "<streak>-Day Streak!".
C6_MilestoneIffMultipleOf7 ==
    pc[1] = "done" =>
        /\ (feedback[1].milestone # None) <=>
                (feedback[1].streak > 0
                 /\ \E m \in 1..(MaxDay + 2) : feedback[1].streak = 7 * m)
        /\ feedback[1].milestone # None =>
                feedback[1].milestone = Some([n |-> feedback[1].streak, suffix |-> "-Day Streak!"])

\* a seven-day streak is answered with its milestone
C6_Witness ==
    /\ pc[1] = "done"
    /\ feedback[1].streak = 7
    /\ feedback[1].milestone = Some([n |-> 7, suffix |-> "-Day Streak!"])

(***************************************************************************)
(* The streak block as a function of the query result and the clock        *)
(***************************************************************************)
InitStreak ==
    /\ \E n \in 0..MaxDay, mode \in {"created", "performed"} :
        \E H \in SUBSET (0..n) :
            /\ now = n
            /\ practicesession = HistSeq(H, 0, n, mode)
            /\ docs = [r \in Req |-> IF r = 1 THEN get_documents(HistSeq(H, 0, n, mode), Some("u1"))
                                      ELSE <<>>]
    /\ achievement = <<>>
    /\ pc = [r \in Req |-> IF r = 1 THEN "streak" ELSE "idle"]
    /\ session = [r \in Req |-> NoSession]
    /\ today = [r \in Req |-> 0]
    /\ streak = [r \in Req |-> 0]
    /\ awarded = [r \in Req |-> 0]
    /\ feedback = [r \in Req |-> NoFeedback]
    /\ board = [limit |-> 0, entries |-> <<>>]

NextStreak ==
    \/ LogStreak(1)
    \/ LogReturn(1)
    \/ Tick(MaxDay + 1)

SpecStreak == InitStreak /\ [][NextStreak]_vars

DefaultLimit == 20

\* for s in sessions: score[uid] = score.get(uid, 0) + score + attempts // 10
\* (a dict keeps its keys in first-insertion order)
RECURSIVE Accumulate(_, _)
Accumulate(sessions, score) ==
    IF sessions = <<>> THEN score
    ELSE LET s == Head(sessions)
             pts == s.technique_score + (s.attempts \div 10)
             at == {i \in 1..Len(score) : score[i].user_id = s.user_id}
         IN  Accumulate(Tail(sessions),
                IF at = {}
                THEN Append(score, [user_id |-> s.user_id, points |-> pts])
                ELSE [i \in 1..Len(score) |->
                        IF i \in at
                        THEN [user_id |-> s.user_id, points |-> score[i].points + pts]
                        ELSE score[i]])

\* sorted(..., key=points, reverse=True): stable, equal points keep their order
InsertDesc(sorted, x) ==
    LET k == Cardinality({i \in 1..Len(sorted) : sorted[i].points >= x.points})
    IN  SubSeq(sorted, 1, k) \o <<x>> \o SubSeq(sorted, k + 1, Len(sorted))

RECURSIVE SortDesc(_, _)
SortDesc(items, sorted) ==
    IF items = <<>> THEN sorted
    ELSE SortDesc(Tail(items), InsertDesc(sorted, Head(items)))

\* seq[:limit]
Slice(seq, limit) ==
    SubSeq(seq, 1, IF limit < 0 THEN Max2(Len(seq) + limit, 0) ELSE Min2(limit, Len(seq)))

LeaderboardResult(sessions, limit) ==
    LET ranks == Slice(SortDesc(Accumulate(sessions, <<>>), <<>>), limit)
    IN  [i \in 1..Len(ranks) |->
            [user_id |-> ranks[i].user_id, points |-> ranks[i].points, rank |-> i]]

Leaderboard(limit) ==
    /\ board' = [limit |-> limit,
                 entries |-> LeaderboardResult(get_documents(practicesession, None), limit)]
    /\ UNCHANGED <<now, practicesession, achievement, pc, session, docs, today,
                   streak, awarded, feedback>>

\* the response is delivered and the worker takes the next request
Recycle(r) ==
    /\ pc[r] = "done"
    /\ pc' = [pc EXCEPT ![r] = "idle"]
    /\ session' = [session EXCEPT ![r] = NoSession]
    /\ docs' = [docs EXCEPT ![r] = <<>>]
    /\ today' = [today EXCEPT ![r] = 0]
    /\ streak' = [streak EXCEPT ![r] = 0]
    /\ awarded' = [awarded EXCEPT ![r] = 0]
    /\ feedback' = [feedback EXCEPT ![r] = NoFeedback]
    /\ UNCHANGED <<now, practicesession, achievement, board>>

BoardUsers == {"u1", "u2", "u3"}

BoardPayloads ==
    {Payload(u, 25, sa[1], sa[2], None, None) :
        u \in BoardUsers, sa \in {<<80, 20>>, <<50, 100>>}}

SubmitBoard ==
    /\ pc[1] = "idle"
    /\ Len(practicesession) < MaxBoard
    /\ \E p \in BoardPayloads : Submit(1, p)

AskBoard == \E limit \in (-1..MaxLimit) \cup {DefaultLimit} : Leaderboard(limit)

InitBoard == now = FirstDay /\ EmptyStore

NextBoard ==
    \/ SubmitBoard
    \/ LogInsert(1)
    \/ LogQuery(1)
    \/ LogStreak(1)
    \/ LogAward(1)
    \/ LogReturn(1)
    \/ Recycle(1)
    \/ AskBoard

SpecBoard == InitBoard /\ [][NextBoard]_vars

RECURSIVE PointsOf(_, _)
PointsOf(u, sessions) ==
    IF sessions = <<>> THEN 0
    ELSE (IF Head(sessions).user_id = u
          THEN Head(sessions).technique_score + (Head(sessions).attempts \div 10)
          ELSE 0) + PointsOf(u, Tail(sessions))

\* the entries: one per distinct user, with that user's total, points
\* non-increasing, ranks 1..n in order, and nobody left out outscores an entry
RankedRight(b, sessions) ==
    LET users == {sessions[i].user_id : i \in 1..Len(sessions)}
        e == b.entries
    IN  /\ \A i \in 1..Len(e) :
            /\ e[i].user_id \in users
            /\ e[i].points = PointsOf(e[i].user_id, sessions)
            /\ e[i].rank = i
        /\ \A i \in 1..Len(e), j \in 1..Len(e) :
            /\ (i # j => e[i].user_id # e[j].user_id)
            /\ (i < j => e[i].points >= e[j].points)
        /\ \A u \in users :
            (\A i \in 1..Len(e) : e[i].user_id # u) =>
                \A i \in 1..Len(e) : e[i].points >= PointsOf(u, sessions)

\* the response holds the first `limit` entries of the order: `limit` of them,
\* or all when there are fewer users, and none for a limit below 1
Truncated(b, sessions) ==
    Len(b.entries) =
        Min2(Max2(b.limit, 0), Cardinality({sessions[i].user_id : i \in 1..Len(sessions)}))

\* C7: every leaderboard response is ranked right and truncated to the first
\* `limit` entries, for every store content and every limit.
C7_Leaderboard ==
    [][board' # board =>
        (RankedRight(board', practicesession) /\ Truncated(board', practicesession))]_vars

\* the same for the limits that are a count (limit >= 0)
LeaderboardForCounts ==
    [][(board' # board /\ board'.limit >= 0) =>
        (RankedRight(board', practicesession) /\ Truncated(board', practicesession))]_vars

\* for a limit below 0 the response is still ranked right
LeaderboardRankedRight ==
    [][board' # board => RankedRight(board', practicesession)]_vars

====
